---- MODULE Spec2Model ----
(***************************************************************************)
(* AL&MO TASKS: the Express backend of src/server.js as a state machine.   *)
(*                                                                         *)
(* The persisted state is the JSON document of data.json.  Every handler   *)
(* loads the whole document, changes its own copy and writes the whole     *)
(* document back.  Each handler is an operator from the loaded document,   *)
(* the clock and the request to its response and the document it saves.    *)
(* Spec runs the handlers one request at a time; SpecConc lets requests     *)
(* overlap at their awaits; SpecPatch applies PATCH bodies to one task.     *)
(* SpecDashboard adds two browsers running src/dashboard.js on one task,    *)
(* and SpecPage is the single-user page of src/script.js with its           *)
(* localStorage.                                                            *)
(*                                                                         *)
(* Identifiers are the strings 'user-'/'board-'/'task-'/'invite-' followed *)
(* by Date.now(); they are modelled as the pair <<prefix, milliseconds>>.  *)
(* A request field that is absent (undefined) is the pair Undefined; a     *)
(* string field that is absent or empty is "".                             *)
(***************************************************************************)
EXTENDS Integers, Sequences, FiniteSets, TLC

\* ---- bounds of the model ----
\* the clock runs from 0 to MaxTime milliseconds
MaxTime == 1
\* the document holds at most MaxDoc records (users, boards, tasks and invites together)
MaxDoc == 4
\* at most MaxInFlight requests are between their load and their write
MaxInFlight == 2
\* a document written by overlapping requests holds at most MaxConcDoc records
MaxConcDoc == 3
\* a run that only creates boards stops at MaxBoards boards
MaxBoards == 8
\* in a run that only registers users the clock runs from 0 to MaxRegTime
MaxRegTime == 2

\* a browser makes at most MaxChanges changes to a task between two fetches
MaxChanges == 1

\* the single-user page holds at most MaxPage users, boards, tasks and
\* sub-items together
MaxPage == 3

\* ---- values of request fields ----
Undefined == <<"undefined", 0>>
EmptyId == <<"", 0>>
\* a user id the server never issued
GhostUser == <<"user", -1>>
Emails == {"bob@x.com"}
NoDetails == [description |-> "", dueDate |-> ""]
SomeDetails == [description |-> "notes", dueDate |-> "2025-01-31"]
MailOutcomes == {"no-transporter", "sent", "failed"}

\* file: data.json; now: Date.now(); inflight: the requests that have loaded the
\* document and not yet saved it.  A response is the output of a handler run and
\* is no part of the state.
\* clients: the browsers that show the dashboard of src/dashboard.js, each with
\* its own copy of a task.  page and localStorage: the arrays users, boards and
\* tasks of src/script.js and the storage of its browser.
VARIABLES file, now, inflight, clients, page, localStorage

vars == <<file, now, inflight, clients, page, localStorage>>

\* the state of the browsers, which no handler of the server touches
browsers == <<clients, page, localStorage>>

\* localStorage.getItem of a key that was never set
Null == [null |-> TRUE]

\* let users = []; let boards = []; let tasks = [];
EmptyPage == [users |-> <<>>, boards |-> <<>>, tasks |-> <<>>]

\* the storage of a browser that never opened the page
NoStorage == [almo_users |-> Null, almo_boards |-> Null, almo_tasks |-> Null]

\* no dashboard is open and the single-user page was never opened
NoBrowser == clients = <<>> /\ page = EmptyPage /\ localStorage = NoStorage

\* ---- the palette ----
boardColors == <<"#4A90E2", "#50E3C2", "#F5A623", "#BD10E0", "#B8E986", "#F8E71C", "#D0021B">>

\* ---- persistence ----
EmptyDoc == [users |-> <<>>, boards |-> <<>>, tasks |-> <<>>, invites |-> <<>>]

loadDataTorn(f) == f.doc

\* readFile + JSON.parse; a missing or unparsable file yields the empty document
loadData(f) == IF f.readable THEN f.doc ELSE EmptyDoc

saveDataMerging(data) ==
  [readable |-> TRUE,
   doc |-> [data EXCEPT
              !.users = @ \o SelectSeq(loadData(file).users,
                                       LAMBDA x : \A i \in 1..Len(data.users) : data.users[i] # x),
              !.boards = @ \o SelectSeq(loadData(file).boards,
                                        LAMBDA x : \A i \in 1..Len(data.boards) : data.boards[i] # x)]]

\* JSON.stringify + writeFile: the whole document replaces the file
saveData(data) == [readable |-> TRUE, doc |-> data]

\* ---- Array helpers ----
includes(s, x) == \E i \in 1..Len(s) : s[i] = x

RECURSIVE IdxOfId(_, _, _)
IdxOfId(s, id, i) ==
  IF i > Len(s) THEN 0
  ELSE IF s[i].id = id THEN i
  ELSE IdxOfId(s, id, i + 1)

findFirst(s, id) == IF Len(s) > 0 THEN 1 ELSE 0

\* Array.prototype.find by id: index of the first element with that id, 0 if none
findById(s, id) == IdxOfId(s, id, 1)

RECURSIVE IdxOfEmail(_, _, _)
IdxOfEmail(s, email, i) ==
  IF i > Len(s) THEN 0
  ELSE IF s[i].email = email THEN i
  ELSE IdxOfEmail(s, email, i + 1)

findNoEmail(s, email) == 0

\* data.users.find(u => u.email === email)
findByEmail(s, email) == IdxOfEmail(s, email, 1)

\* 'prefix-' + Date.now()
MakeId(prefix, t) == <<prefix, t>>

\* bcrypt.hash(password, 10): the stored value is not the password
bcryptHash(password) == <<"$2a$10$", password>>

\* bcrypt.compare(password, hash)
bcryptCompare(password, hash) == hash = bcryptHash(password)

\* the access test of GET /api/boards and GET /api/tasks
hasAccess(b, userId) == includes(b.members, userId) \/ b.ownerId = userId

isMemberAnyone(b, userId) == TRUE

isMemberOwnerOnly(b, userId) == b.ownerId = userId

\* the access test of POST /api/invite and POST /api/tasks
isMember(b, userId) == includes(b.members, userId)

listBoardsInvited(data, userId) ==
  SelectSeq(data.boards, LAMBDA b : includes(b.members, userId) /\ b.ownerId # userId)

\* the filter of GET /api/boards
listBoards(data, userId) == SelectSeq(data.boards, LAMBDA b : hasAccess(b, userId))

accessibleBoardIds(data, userId) ==
  {listBoards(data, userId)[i].id : i \in 1..Len(listBoards(data, userId))}

listTasksOfOwner(data, userId) ==
  SelectSeq(data.tasks,
            LAMBDA t : \E i \in 1..Len(data.boards) :
                         data.boards[i].id = t.boardId /\ data.boards[i].ownerId = userId)

listTasksAssigned(data, userId) ==
  SelectSeq(data.tasks, LAMBDA t : t.userId = userId)

\* the filter of GET /api/tasks
listTasks(data, userId) ==
  SelectSeq(data.tasks, LAMBDA t : t.boardId \in accessibleBoardIds(data, userId))

\* number of records of the document
DocSize(data) == Len(data.users) + Len(data.boards) + Len(data.tasks) + Len(data.invites)

\* the bound of the model on a document about to be saved
Fits(data) == DocSize(data) <= MaxDoc

\* ---- ids a client can send ----
Registered(data) == {data.users[i].id : i \in 1..Len(data.users)}
UserIds(data) == Registered(data) \cup {GhostUser}
StoredBoardIds(data) == {data.boards[i].id : i \in 1..Len(data.boards)}
StoredTaskIds(data) == {data.tasks[i].id : i \in 1..Len(data.tasks)}
\* ids that name no stored record
NoBoard == MakeId("board", -1)
NoTask == MakeId("task", -1)

\* ---- handler results ----
Reply(op, req, status, body) == [op |-> op, req |-> req, status |-> status, body |-> body]

FailWiping(op, req, status, message) ==
  [res |-> Reply(op, req, status, message), save |-> TRUE, doc |-> EmptyDoc]

\* return res.status(status).json({ message }): nothing is saved
Fail(op, req, status, message) ==
  [res |-> Reply(op, req, status, message), save |-> FALSE, doc |-> EmptyDoc]

\* await saveData(data); res.json(body)
Done(op, req, body, data) ==
  [res |-> Reply(op, req, 200, body), save |-> TRUE, doc |-> data]

\* res.json(body) of a handler that never saves
Answer(op, req, body) ==
  [res |-> Reply(op, req, 200, body), save |-> FALSE, doc |-> EmptyDoc]

addUserAndJoin(data, newUser) ==
  [data EXCEPT
     !.users = Append(@, newUser),
     !.boards = [i \in 1..Len(@) |->
                   IF \E j \in 1..Len(data.invites) :
                        data.invites[j].boardId = @[i].id /\ data.invites[j].email = newUser.email
                   THEN [@[i] EXCEPT !.members = Append(@, newUser.id)]
                   ELSE @[i]]]

\* data.users.push(newUser)
addUser(data, newUser) == [data EXCEPT !.users = Append(@, newUser)]

\* ---- POST /api/register; t is Date.now() after the hash ----
registerHandler(data, t, name, email, password) ==
  LET req == [name |-> name, email |-> email, password |-> password]
      id == MakeId("user", t)
      newUser == [id |-> id, name |-> name, email |-> email,
                  passwordHash |-> bcryptHash(password)]
  IN
  IF name = "" \/ email = "" \/ password = ""
  THEN Fail("register", req, 400, "Name, email and password are required.")
  ELSE IF findByEmail(data.users, email) # 0
  THEN Fail("register", req, 400, "Email is already registered.")
  ELSE Done("register", req, [userId |-> id, name |-> name], addUser(data, newUser))

unknownEmailNotFound(req) == Fail("login", req, 404, "User not found.")

\* if (!user) return res.status(401).json({ message: 'Invalid credentials.' })
unknownEmail(req) == Fail("login", req, 401, "Invalid credentials.")

\* ---- POST /api/login ----
loginHandler(data, email, password) ==
  LET req == [email |-> email, password |-> password]
      i == findByEmail(data.users, email)
  IN
  IF email = "" \/ password = ""
  THEN Fail("login", req, 400, "Email and password are required.")
  ELSE IF i = 0
  THEN unknownEmail(req)
  ELSE IF ~bcryptCompare(password, data.users[i].passwordHash)
  THEN Fail("login", req, 401, "Invalid credentials.")
  ELSE Answer("login", req, [userId |-> data.users[i].id, name |-> data.users[i].name])

\* ---- GET /api/users ----
getUsersHandler(data) ==
  Answer("listUsers", <<>>,
         [i \in 1..Len(data.users) |->
            [id |-> data.users[i].id, name |-> data.users[i].name,
             email |-> data.users[i].email]])

\* ---- GET /api/boards?userId=... ----
getBoardsHandler(data, userId) ==
  LET req == [userId |-> userId]
  IN
  IF userId = Undefined
  THEN Fail("listBoards", req, 400, "userId is required.")
  ELSE Answer("listBoards", req, listBoards(data, userId))

newBoardOneColor(data, t, name, userId) ==
  [id |-> MakeId("board", t), name |-> name, color |-> boardColors[1],
   ownerId |-> userId, members |-> <<userId>>]

newBoardNoOwner(data, t, name, userId) ==
  [id |-> MakeId("board", t), name |-> name,
   color |-> boardColors[(Len(data.boards) % Len(boardColors)) + 1],
   ownerId |-> userId, members |-> <<>>]

\* const board = { id, name, color, ownerId: userId, members: [userId] }
newBoard(data, t, name, userId) ==
  [id |-> MakeId("board", t), name |-> name,
   color |-> boardColors[(Len(data.boards) % Len(boardColors)) + 1],
   ownerId |-> userId, members |-> <<userId>>]

\* ---- POST /api/boards ----
createBoardHandler(data, t, name, userId) ==
  LET req == [name |-> name, userId |-> userId]
      board == newBoard(data, t, name, userId)
  IN
  IF name = "" \/ userId = Undefined
  THEN Fail("createBoard", req, 400, "Name and userId are required.")
  ELSE Done("createBoard", req, board, [data EXCEPT !.boards = Append(@, board)])

joinMembersAlone(members, users, email) ==
  IF findByEmail(users, email) # 0
  THEN <<users[findByEmail(users, email)].id>>
  ELSE members

joinMembersNever(members, users, email) == members

joinMembersAgain(members, users, email) ==
  IF findByEmail(users, email) # 0
  THEN Append(members, users[findByEmail(users, email)].id)
  ELSE members

\* if (user) { if (!board.members.includes(user.id)) board.members.push(user.id); }
joinMembers(members, users, email) ==
  LET u == findByEmail(users, email)
  IN IF u # 0 /\ ~includes(members, users[u].id)
     THEN Append(members, users[u].id)
     ELSE members

mailStepFirst(h, mail) ==
  IF mail = "failed"
  THEN Fail("invite", h.res.req, 500, "Internal Server Error")
  ELSE [h EXCEPT !.res = @ @@ [mail |-> mail]]

\* the mail step runs after await saveData(data): sendMail resolves, or throws
\* and the error is caught and logged, or there is no transporter; then
\* res.json({ message: 'Invitation processed.' })
mailStep(h, mail) == [h EXCEPT !.res = @ @@ [mail |-> mail]]

\* ---- POST /api/invite; mail is what the mail step after the save does ----
inviteHandler(data, t, boardId, email, inviterId, mail) ==
  LET req == [boardId |-> boardId, email |-> email, inviterId |-> inviterId]
      b == findById(data.boards, boardId)
      inv == [id |-> MakeId("invite", t), boardId |-> boardId, email |-> email,
              inviterId |-> inviterId, created |-> <<"iso", t>>]
  IN
  IF boardId = Undefined \/ email = "" \/ inviterId = Undefined
  THEN Fail("invite", req, 400, "boardId, email and inviterId are required.")
  ELSE IF b = 0
  THEN Fail("invite", req, 404, "Board not found.")
  ELSE IF ~isMember(data.boards[b], inviterId)
  THEN Fail("invite", req, 403, "You are not a member of this board.")
  ELSE mailStep(Done("invite", req, "Invitation processed.",
                     [data EXCEPT
                        !.boards[b].members = joinMembers(@, data.users, email),
                        !.invites = Append(@, inv)]),
                mail)

\* ---- GET /api/tasks?userId=... ----
getTasksHandler(data, userId) ==
  LET req == [userId |-> userId]
  IN
  IF userId = Undefined
  THEN Fail("listTasks", req, 400, "userId is required.")
  ELSE Answer("listTasks", req, listTasks(data, userId))

\* const task = { id, title, description: description || '', ... items: [] }
newTask(t, title, details, boardId, assignedUserId) ==
  [id |-> MakeId("task", t), title |-> title,
   description |-> details.description,
   dueDate |-> details.dueDate,
   boardId |-> boardId,
   userId |-> IF assignedUserId = Undefined THEN EmptyId ELSE assignedUserId,
   items |-> <<>>]

\* ---- POST /api/tasks ----
createTaskHandler(data, t, title, details, boardId, assignedUserId, creatorId) ==
  LET req == [title |-> title, description |-> details.description,
              dueDate |-> details.dueDate, boardId |-> boardId,
              assignedUserId |-> assignedUserId, creatorId |-> creatorId]
      b == findById(data.boards, boardId)
      task == newTask(t, title, details, boardId, assignedUserId)
  IN
  IF title = "" \/ boardId = Undefined \/ creatorId = Undefined
  THEN Fail("createTask", req, 400, "title, boardId and creatorId are required.")
  ELSE IF b = 0
  THEN Fail("createTask", req, 404, "Board not found.")
  ELSE IF ~isMember(data.boards[b], creatorId)
  THEN Fail("createTask", req, 403, "You are not a member of this board.")
  ELSE Done("createTask", req, task, [data EXCEPT !.tasks = Append(@, task)])

\* the allow-list of PATCH /api/tasks/:id
allowed == {"title", "description", "dueDate", "boardId", "userId", "items"}

mergeEveryKey(task, updates) ==
  [key \in DOMAIN task \cup DOMAIN updates |->
     IF key \in DOMAIN updates THEN updates[key] ELSE task[key]]

mergeItemsById(task, updates) ==
  [key \in DOMAIN task \cup (allowed \cap DOMAIN updates) |->
     IF key = "items" /\ key \in DOMAIN updates
     THEN SelectSeq(task.items,
                    LAMBDA old : \A i \in 1..Len(updates.items) : updates.items[i].id # old.id)
          \o updates.items
     ELSE IF key \in allowed /\ key \in DOMAIN updates THEN updates[key] ELSE task[key]]

\* allowed.forEach(key => { if (key in updates) task[key] = updates[key]; })
mergeUpdates(task, updates) ==
  [key \in DOMAIN task \cup (allowed \cap DOMAIN updates) |->
     IF key \in allowed /\ key \in DOMAIN updates THEN updates[key] ELSE task[key]]

\* ---- PATCH /api/tasks/:id ----
updateTaskHandler(data, taskId, updates) ==
  LET req == [taskId |-> taskId, updates |-> updates]
      i == findById(data.tasks, taskId)
  IN
  IF i = 0
  THEN Fail("updateTask", req, 404, "Task not found.")
  ELSE Done("updateTask", req, mergeUpdates(data.tasks[i], updates),
            [data EXCEPT !.tasks[i] = mergeUpdates(@, updates)])

deleteTaskStrict(data, taskId) ==
  IF findById(data.tasks, taskId) = 0
  THEN Fail("deleteTask", [taskId |-> taskId], 404, "Task not found.")
  ELSE Done("deleteTask", [taskId |-> taskId], "Task deleted.",
            [data EXCEPT !.tasks = SelectSeq(@, LAMBDA x : x.id # taskId)])

\* ---- DELETE /api/tasks/:id ----
deleteTaskHandler(data, taskId) ==
  Done("deleteTask", [taskId |-> taskId], "Task deleted.",
       [data EXCEPT !.tasks = SelectSeq(@, LAMBDA x : x.id # taskId)])

mayDeleteMember(board, userId) == includes(board.members, userId)

\* if (board.ownerId !== userId) return res.status(403)
mayDelete(board, userId) == board.ownerId = userId

removeBoardOnly(data, boardId) ==
  [data EXCEPT !.boards = SelectSeq(@, LAMBDA x : x.id # boardId)]

\* data.boards = data.boards.filter(...); data.tasks = data.tasks.filter(...)
removeBoard(data, boardId) ==
  [data EXCEPT !.boards = SelectSeq(@, LAMBDA x : x.id # boardId),
               !.tasks = SelectSeq(@, LAMBDA x : x.boardId # boardId)]

\* ---- DELETE /api/boards/:id ----
deleteBoardHandler(data, boardId, userId) ==
  LET req == [boardId |-> boardId, userId |-> userId]
      b == findById(data.boards, boardId)
  IN
  IF b = 0
  THEN Fail("deleteBoard", req, 404, "Board not found.")
  ELSE IF ~mayDelete(data.boards[b], userId)
  THEN Fail("deleteBoard", req, 403, "Only the owner can delete this board.")
  ELSE Done("deleteBoard", req, "Board deleted.", removeBoard(data, boardId))

\* ---- the requests clients send ----
RegisterRequests ==
  {[name |-> "Ann", email |-> e, password |-> "pw1"] : e \in Emails}
  \cup {[name |-> "", email |-> "bob@x.com", password |-> "pw1"]}

LoginRequests ==
  {[email |-> "alice@x.com", password |-> "pw1"],
   [email |-> "alice@x.com", password |-> "pw2"],
   [email |-> "bob@x.com", password |-> "pw1"],
   [email |-> "bob@x.com", password |-> "pw2"],
   [email |-> "", password |-> "pw1"]}

CreateBoardRequests(data) ==
  {[name |-> "Sprint", userId |-> u] : u \in UserIds(data)}
  \cup {[name |-> "", userId |-> GhostUser], [name |-> "Sprint", userId |-> Undefined]}

InviteRequests(data) ==
  {[boardId |-> b, email |-> e, inviterId |-> u] :
     b \in StoredBoardIds(data), e \in Emails, u \in UserIds(data)}
  \cup {[boardId |-> b, email |-> "", inviterId |-> GhostUser] : b \in StoredBoardIds(data)}
  \cup {[boardId |-> b, email |-> "bob@x.com", inviterId |-> Undefined] :
          b \in StoredBoardIds(data)}
  \cup {[boardId |-> NoBoard, email |-> "bob@x.com", inviterId |-> GhostUser],
        [boardId |-> Undefined, email |-> "bob@x.com", inviterId |-> Undefined]}

CreateTaskRequests(data) ==
  {[title |-> "Fix bug", details |-> NoDetails, boardId |-> b, assignedUserId |-> a,
    creatorId |-> u] :
     b \in StoredBoardIds(data), a \in Registered(data) \cup {Undefined},
     u \in UserIds(data)}
  \cup {[title |-> "Fix bug", details |-> NoDetails, boardId |-> NoBoard,
         assignedUserId |-> Undefined, creatorId |-> GhostUser],
        [title |-> "", details |-> NoDetails, boardId |-> Undefined,
         assignedUserId |-> Undefined, creatorId |-> Undefined]}

\* moving a task to another board, as the board selector of the dashboard does
UpdateTaskRequests(data) ==
  {[taskId |-> t, updates |-> [boardId |-> b]] :
     t \in StoredTaskIds(data), b \in StoredBoardIds(data) \cup {NoBoard}}
  \cup {[taskId |-> NoTask, updates |-> [boardId |-> NoBoard]]}

DeleteTaskRequests(data) == StoredTaskIds(data) \cup {NoTask}

DeleteBoardRequests(data) ==
  {[boardId |-> b, userId |-> u] :
     b \in StoredBoardIds(data), u \in UserIds(data) \cup {Undefined}}
  \cup {[boardId |-> NoBoard, userId |-> GhostUser]}

\* ---- one request at a time ----
Init ==
  /\ file = [readable |-> FALSE, doc |-> EmptyDoc]
  /\ now = 0
  /\ inflight = <<>>
  /\ NoBrowser

\* the wall clock advances between requests
Tick ==
  /\ now < MaxTime
  /\ now' = now + 1
  /\ UNCHANGED <<file, inflight, browsers>>

\* a handler runs from loadData to its response with no other request in between
Serve(h) ==
  /\ inflight = <<>>
  /\ IF h.save
     THEN Fits(h.doc) /\ file' = saveData(h.doc)
     ELSE UNCHANGED file
  /\ UNCHANGED <<inflight, browsers>>

\* the hash of register spans at least one clock tick; the id is read after it
register(name, email, password) ==
  LET h == registerHandler(loadData(file), now + 1, name, email, password)
  IN /\ Serve(h)
     /\ IF h.save THEN now < MaxTime /\ now' = now + 1 ELSE now' = now

login(email, password) ==
  Serve(loginHandler(loadData(file), email, password)) /\ UNCHANGED now

getUsers ==
  Serve(getUsersHandler(loadData(file))) /\ UNCHANGED now

getBoards(userId) ==
  Serve(getBoardsHandler(loadData(file), userId)) /\ UNCHANGED now

createBoard(name, userId) ==
  Serve(createBoardHandler(loadData(file), now, name, userId)) /\ UNCHANGED now

invite(boardId, email, inviterId, mail) ==
  Serve(inviteHandler(loadData(file), now, boardId, email, inviterId, mail))
  /\ UNCHANGED now

getTasks(userId) ==
  Serve(getTasksHandler(loadData(file), userId)) /\ UNCHANGED now

createTask(title, details, boardId, assignedUserId, creatorId) ==
  Serve(createTaskHandler(loadData(file), now, title, details, boardId,
                          assignedUserId, creatorId))
  /\ UNCHANGED now

updateTask(taskId, updates) ==
  Serve(updateTaskHandler(loadData(file), taskId, updates)) /\ UNCHANGED now

deleteTask(taskId) ==
  Serve(deleteTaskHandler(loadData(file), taskId)) /\ UNCHANGED now

deleteBoard(boardId, userId) ==
  Serve(deleteBoardHandler(loadData(file), boardId, userId)) /\ UNCHANGED now

Next ==
  \/ Tick
  \/ \E r \in RegisterRequests : register(r.name, r.email, r.password)
  \/ \E r \in LoginRequests : login(r.email, r.password)
  \/ getUsers
  \/ \E userId \in UserIds(loadData(file)) \cup {Undefined} : getBoards(userId)
  \/ \E r \in CreateBoardRequests(loadData(file)) : createBoard(r.name, r.userId)
  \/ \E r \in InviteRequests(loadData(file)), mail \in MailOutcomes :
       invite(r.boardId, r.email, r.inviterId, mail)
  \/ \E userId \in UserIds(loadData(file)) \cup {Undefined} : getTasks(userId)
  \/ \E r \in CreateTaskRequests(loadData(file)) :
       createTask(r.title, r.details, r.boardId, r.assignedUserId, r.creatorId)
  \/ \E r \in UpdateTaskRequests(loadData(file)) : updateTask(r.taskId, r.updates)
  \/ \E taskId \in DeleteTaskRequests(loadData(file)) : deleteTask(taskId)
  \/ \E r \in DeleteBoardRequests(loadData(file)) : deleteBoard(r.boardId, r.userId)

Spec == Init /\ [][Next]_vars

\* ---- overlapping requests ----
\* Every await of a handler lets other requests run: between the load and the
\* write of one request others load and write, and the hash of register is a
\* further await.  An entry of inflight is a request past its load.
Hashing(data, r) == [stage |-> "hashing", data |-> data, req |-> r, since |-> now]
Writing(h) == [stage |-> "writing", data |-> h.doc, req |-> h.res.req, since |-> 0]

WriteOpen == \E i \in 1..Len(inflight) : inflight[i].stage = "writing"

\* readFile while a writeFile has truncated the file yields text that does not
\* parse, and loadData then returns the empty document
Loads == {loadData(file)} \cup (IF WriteOpen THEN {EmptyDoc} ELSE {})

\* a request has loaded, run its handler on its own copy and called saveData
Arrive(h) ==
  /\ Len(inflight) < MaxInFlight
  /\ h.save
  /\ DocSize(h.doc) <= MaxConcDoc
  /\ inflight' = Append(inflight, Writing(h))
  /\ UNCHANGED <<file, now, browsers>>

beginRegister(data, r) ==
  /\ Len(inflight) < MaxInFlight
  /\ registerHandler(data, now, r.name, r.email, r.password).save
  /\ inflight' = Append(inflight, Hashing(data, r))
  /\ UNCHANGED <<file, now, browsers>>

Replace(s, i, e) == [s EXCEPT ![i] = e]
Remove(s, i) == SubSeq(s, 1, i - 1) \o SubSeq(s, i + 1, Len(s))

\* bcrypt.hash resolves some milliseconds later; the id is read then
finishHash(i) ==
  /\ inflight[i].stage = "hashing"
  /\ now > inflight[i].since
  /\ LET e == inflight[i]
         h == registerHandler(e.data, now, e.req.name, e.req.email, e.req.password)
     IN DocSize(h.doc) <= MaxConcDoc /\ inflight' = Replace(inflight, i, Writing(h))
  /\ UNCHANGED <<file, now, browsers>>

beginCreateBoard(data, name, userId) ==
  Arrive(createBoardHandler(data, now, name, userId))

beginInvite(data, boardId, email, inviterId, mail) ==
  Arrive(inviteHandler(data, now, boardId, email, inviterId, mail))

beginCreateTask(data, title, details, boardId, assignedUserId, creatorId) ==
  Arrive(createTaskHandler(data, now, title, details, boardId, assignedUserId, creatorId))

beginUpdateTask(data, taskId, updates) ==
  Arrive(updateTaskHandler(data, taskId, updates))

beginDeleteTask(data, taskId) ==
  Arrive(deleteTaskHandler(data, taskId))

beginDeleteBoard(data, boardId, userId) ==
  Arrive(deleteBoardHandler(data, boardId, userId))

\* writeFile of request i completes; two writeFile calls open at once can leave
\* a mix of both texts, which does not parse
completeWrite(i) ==
  /\ inflight[i].stage = "writing"
  /\ \/ file' = saveData(inflight[i].data)
     \/ /\ \E j \in 1..Len(inflight) : j # i /\ inflight[j].stage = "writing"
        /\ file' = [readable |-> FALSE, doc |-> EmptyDoc]
  /\ inflight' = Remove(inflight, i)
  /\ UNCHANGED <<now, browsers>>

NextConc ==
  \/ Tick
  \/ \E data \in Loads :
       \/ \E r \in RegisterRequests : beginRegister(data, r)
       \/ beginCreateBoard(data, "Sprint", GhostUser)
       \/ \E b \in StoredBoardIds(data) :
            beginInvite(data, b, "bob@x.com", GhostUser, "sent")
       \/ \E b \in StoredBoardIds(data) :
            beginCreateTask(data, "Fix bug", NoDetails, b, Undefined, GhostUser)
       \/ \E t \in StoredTaskIds(data) : beginUpdateTask(data, t, [boardId |-> NoBoard])
       \/ \E t \in StoredTaskIds(data) : beginDeleteTask(data, t)
       \/ \E b \in StoredBoardIds(data) : beginDeleteBoard(data, b, GhostUser)
  \/ \E i \in 1..Len(inflight) : finishHash(i)
  \/ \E i \in 1..Len(inflight) : completeWrite(i)

SpecConc == Init /\ [][NextConc]_vars

\* ---- PATCH bodies ----
\* one value for every allow-listed key and for two keys outside the allow-list:
\* id, which every task has, and color, which no task has
PatchValue ==
  [title |-> "Renamed", description |-> "changed", dueDate |-> "2025-12-24",
   boardId |-> NoBoard, userId |-> MakeId("user", 7),
   items |-> <<[id |-> MakeId("item", 7), content |-> "step", completed |-> FALSE]>>,
   id |-> MakeId("task", 7), color |-> "#D0021B"]

\* every JSON object whose keys are among those of PatchValue, {} included
PatchBodies == {[key \in keys |-> PatchValue[key]] : keys \in SUBSET DOMAIN PatchValue}

\* a document with one board and one task on it, as createBoard and createTask
\* leave it
OneTaskDocs ==
  LET withBoard == createBoardHandler(EmptyDoc, 0, "Sprint", GhostUser).doc
  IN {createTaskHandler(withBoard, 0, "Fix bug", details, MakeId("board", 0), a,
                        GhostUser).doc :
        details \in {NoDetails, SomeDetails}, a \in {Undefined, GhostUser}}

InitPatch ==
  /\ \E data \in OneTaskDocs : file = saveData(data)
  /\ now = 0
  /\ inflight = <<>>
  /\ NoBrowser

NextPatch ==
  \E taskId \in StoredTaskIds(loadData(file)) \cup {NoTask}, updates \in PatchBodies :
    updateTask(taskId, updates)

SpecPatch == InitPatch /\ [][NextPatch]_vars

\* ---- boards created one after the other ----
PaletteRequests ==
  {[name |-> n, userId |-> GhostUser] : n \in {"Sprint", "Home"}}
  \cup {[name |-> "", userId |-> GhostUser]}

\* POST /api/boards on a document that holds boards only
createNextBoard(name, userId) ==
  LET h == createBoardHandler(loadData(file), now, name, userId)
  IN /\ inflight = <<>>
     /\ IF h.save
        THEN Len(h.doc.boards) <= MaxBoards /\ file' = saveData(h.doc)
        ELSE UNCHANGED file
     /\ UNCHANGED <<now, inflight, browsers>>

NextPalette ==
  \/ Tick
  \/ \E r \in PaletteRequests : createNextBoard(r.name, r.userId)

SpecPalette == Init /\ [][NextPalette]_vars

\* ---- overlapping register requests ----
SignUpRequests ==
  {[name |-> "Ann", email |-> e, password |-> "pw1"] : e \in {"alice@x.com", "bob@x.com"}}

TickSignUp ==
  /\ now < MaxRegTime
  /\ now' = now + 1
  /\ UNCHANGED <<file, inflight, browsers>>

NextSignUp ==
  \/ TickSignUp
  \/ \E data \in Loads, r \in SignUpRequests : beginRegister(data, r)
  \/ \E i \in 1..Len(inflight) : finishHash(i)
  \/ \E i \in 1..Len(inflight) : completeWrite(i)

SpecSignUp == Init /\ [][NextSignUp]_vars

\* ---- two overlapping requests and their responses ----
\* writeFile of request i completes and the handler responds; the entry stays
\* in inflight as the record of a request that was answered with status 200
answerWrite(i) ==
  /\ inflight[i].stage = "writing"
  /\ \/ file' = saveData(inflight[i].data)
     \/ /\ \E j \in 1..Len(inflight) : j # i /\ inflight[j].stage = "writing"
        /\ file' = [readable |-> FALSE, doc |-> EmptyDoc]
  /\ inflight' = Replace(inflight, i, [inflight[i] EXCEPT !.stage = "answered", !.since = now])
  /\ UNCHANGED <<now, browsers>>

NextOverlap ==
  \/ Tick
  \/ \E data \in Loads :
       \/ \E r \in SignUpRequests : beginRegister(data, r)
       \/ \E n \in {"Sprint", "Home"} : beginCreateBoard(data, n, GhostUser)
  \/ \E i \in 1..Len(inflight) : finishHash(i)
  \/ \E i \in 1..Len(inflight) : answerWrite(i)

SpecOverlap == Init /\ [][NextOverlap]_vars

\* ---- one request at a time, no task changes its board ----
\* PATCH bodies without the key boardId
RenameRequests(data) ==
  {[taskId |-> t, updates |-> [title |-> "Renamed"]] : t \in StoredTaskIds(data) \cup {NoTask}}

NextStay ==
  \/ Tick
  \/ \E r \in RegisterRequests : register(r.name, r.email, r.password)
  \/ \E r \in LoginRequests : login(r.email, r.password)
  \/ \E r \in CreateBoardRequests(loadData(file)) : createBoard(r.name, r.userId)
  \/ \E r \in InviteRequests(loadData(file)) : invite(r.boardId, r.email, r.inviterId, "sent")
  \/ \E r \in CreateTaskRequests(loadData(file)) :
       createTask(r.title, r.details, r.boardId, r.assignedUserId, r.creatorId)
  \/ \E r \in RenameRequests(loadData(file)) : updateTask(r.taskId, r.updates)
  \/ \E taskId \in DeleteTaskRequests(loadData(file)) : deleteTask(taskId)
  \/ \E r \in DeleteBoardRequests(loadData(file)) : deleteBoard(r.boardId, r.userId)

SpecStay == Init /\ [][NextStay]_vars

\* ---- the dashboard of src/dashboard.js in two browsers ----
\* String.prototype.trim on the texts a user types
trim(text) == IF text = " call " THEN "call" ELSE text

\* item.completed = chk.checked, after the click has flipped the checkbox
toggled(task, k) == [task EXCEPT !.items[k].completed = ~@]

\* item.content = newContent.trim()
edited(task, k, text) == [task EXCEPT !.items[k].content = trim(text)]

\* task.items = task.items.filter(it => it.id !== item.id)
withoutItem(task, k) ==
  [task EXCEPT !.items = SelectSeq(@, LAMBDA it : it.id # task.items[k].id)]

\* task.items.push({ id: 'item-' + Date.now(), content, completed: false })
withItem(task, t, text) ==
  [task EXCEPT !.items = Append(@, [id |-> MakeId("item", t), content |-> trim(text),
                                    completed |-> FALSE])]

\* the document the dashboards work on: one board of GhostUser with one task,
\* to which an earlier dashboard session has added one sub-item
DashboardDoc ==
  LET withBoard == createBoardHandler(EmptyDoc, 0, "Sprint", GhostUser).doc
      withTask == createTaskHandler(withBoard, 0, "Fix bug", NoDetails, MakeId("board", 0),
                                    Undefined, GhostUser).doc
  IN updateTaskHandler(withTask, MakeId("task", 0),
                       [items |-> withItem(withTask.tasks[1], 0, "step").items]).doc

\* the two browsers that show the dashboard
Browsers == {"A", "B"}

\* tasks = await res.json() of fetchTasks: the browser's own copy of the task;
\* base and did record what was fetched and what the user did to it since
Fetched(b, task) == [browser |-> b, task |-> task, base |-> task.items, did |-> <<>>]

InitDashboard ==
  /\ file = saveData(DashboardDoc)
  /\ now = 0
  /\ inflight = <<>>
  /\ NoBrowser

\* init(): a browser opens the dashboard and fetches the tasks of its user
openDashboard(b) ==
  LET h == getTasksHandler(loadData(file), GhostUser)
  IN /\ \A c \in 1..Len(clients) : clients[c].browser # b
     /\ h.res.status = 200 /\ Len(h.res.body) > 0
     /\ clients' = Append(clients, Fetched(b, h.res.body[1]))
     /\ UNCHANGED <<file, now, inflight, page, localStorage>>

\* updateTaskItems(task): PATCH /api/tasks/:id with { items: task.items }; the
\* server handles it before the next event of any browser, and the browser
\* keeps its own copy whatever the answer
updateTaskItems(c, task, kind, id) ==
  LET h == updateTaskHandler(loadData(file), task.id, [items |-> task.items])
  IN /\ inflight = <<>>
     /\ Len(clients[c].did) < MaxChanges
     /\ file' = IF h.save THEN saveData(h.doc) ELSE file
     /\ clients' = [clients EXCEPT ![c] = [@ EXCEPT !.task = task,
                                                     !.did = Append(@, [kind |-> kind, id |-> id])]]
     /\ UNCHANGED <<now, inflight, page, localStorage>>

\* the change handler of the checkbox of sub-item k
toggleItem(c, k) ==
  updateTaskItems(c, toggled(clients[c].task, k), "toggle", clients[c].task.items[k].id)

\* the Edit button of sub-item k, the prompt answered with text
editItem(c, k, text) ==
  updateTaskItems(c, edited(clients[c].task, k, text), "edit", clients[c].task.items[k].id)

\* the delete button of sub-item k
deleteItem(c, k) ==
  updateTaskItems(c, withoutItem(clients[c].task, k), "delete", clients[c].task.items[k].id)

\* the submit handler of the add-item form
addItem(c, text) ==
  /\ trim(text) # ""
  /\ updateTaskItems(c, withItem(clients[c].task, now, text), "add", MakeId("item", now))

NextDashboard ==
  \/ Tick
  \/ \E b \in Browsers : openDashboard(b)
  \/ \E c \in 1..Len(clients) :
       \E k \in 1..Len(clients[c].task.items) :
         \/ toggleItem(c, k)
         \/ editItem(c, k, " call ")
         \/ deleteItem(c, k)
  \/ \E c \in 1..Len(clients) : addItem(c, "step")

SpecDashboard == InitDashboard /\ [][NextDashboard]_vars

\* ---- data.json lost or damaged ----
\* the file is removed, or its text is cut short or mixed (a crash during
\* writeFile, two writeFile calls at once); doc is then what was written last,
\* which no longer parses
damage ==
  /\ inflight = <<>>
  /\ file.readable
  /\ \/ file' = [readable |-> FALSE, doc |-> file.doc]
     \/ file' = [readable |-> FALSE, doc |-> EmptyDoc]
  /\ UNCHANGED <<now, inflight, browsers>>

NextRecover ==
  \/ Tick
  \/ damage
  \/ \E r \in RegisterRequests : register(r.name, r.email, r.password)
  \/ \E r \in CreateBoardRequests(loadData(file)) : createBoard(r.name, r.userId)
  \/ \E r \in CreateTaskRequests(loadData(file)) :
       createTask(r.title, r.details, r.boardId, r.assignedUserId, r.creatorId)
  \/ \E taskId \in DeleteTaskRequests(loadData(file)) : deleteTask(taskId)
  \/ \E r \in DeleteBoardRequests(loadData(file)) : deleteBoard(r.boardId, r.userId)

SpecRecover == Init /\ [][NextRecover]_vars

\* ---- the single-user page of src/script.js ----
\* JSON.stringify of an array of objects whose properties are strings, booleans
\* and arrays of such objects: a text, which is not the array
stringify(array) == [json |-> array]

\* JSON.parse(item) || []: JSON.parse(null) is null and gives []; a text gives
\* the array it denotes
parseOrEmpty(item) == IF "json" \in DOMAIN item THEN item.json ELSE <<>>

saveUsersAndBoards(p, storage) ==
  [storage EXCEPT !.almo_users = stringify(p.users), !.almo_boards = stringify(p.boards)]

\* save(): three setItem calls
save(p, storage) ==
  [storage EXCEPT !.almo_users = stringify(p.users),
                  !.almo_boards = stringify(p.boards),
                  !.almo_tasks = stringify(p.tasks)]

\* if (!task.items) task.items = []; if (!('editing' in task)) task.editing = false
withDefaults(task) ==
  [key \in DOMAIN task \cup {"items", "editing"} |->
     IF key \in DOMAIN task THEN task[key]
     ELSE IF key = "items" THEN <<>> ELSE FALSE]

RECURSIVE IdxOfName(_, _, _)
IdxOfName(s, name, i) ==
  IF i > Len(s) THEN 0
  ELSE IF s[i].name = name THEN i
  ELSE IdxOfName(s, name, i + 1)

\* task.assigned && !task.userId
legacy(task) ==
  /\ "assigned" \in DOMAIN task
  /\ task.assigned # ""
  /\ ("userId" \in DOMAIN task => task.userId = EmptyId)

\* task.userId = id; delete task.assigned
assignedTo(task, id) ==
  [key \in (DOMAIN task \cup {"userId"}) \ {"assigned"} |->
     IF key = "userId" THEN id ELSE task[key]]

\* tasks.forEach of load(): defaults, and the legacy field assigned becomes the
\* id of the user of that name, a new user if there is none
RECURSIVE migrate(_, _, _, _)
migrate(users, tasks, i, t) ==
  IF i > Len(tasks) THEN [users |-> users, tasks |-> tasks]
  ELSE LET task == withDefaults(tasks[i])
           match == IdxOfName(users, task.assigned, 1)
       IN IF ~legacy(task)
          THEN migrate(users, [tasks EXCEPT ![i] = task], i + 1, t)
          ELSE IF match # 0
          THEN migrate(users, [tasks EXCEPT ![i] = assignedTo(task, users[match].id)],
                       i + 1, t)
          ELSE migrate(Append(users, [id |-> MakeId("user", t), name |-> task.assigned]),
                       [tasks EXCEPT ![i] = assignedTo(task, MakeId("user", t))], i + 1, t)

\* boards.forEach of load(): a board without colour gets the one of its index
withColors(boards) ==
  [i \in 1..Len(boards) |->
     IF "color" \in DOMAIN boards[i] /\ boards[i].color # ""
     THEN boards[i]
     ELSE [key \in DOMAIN boards[i] \cup {"color"} |->
             IF key = "color" THEN boardColors[((i - 1) % Len(boardColors)) + 1]
             ELSE boards[i][key]]]

\* load() up to its save(): the arrays read from storage at time t
load(storage, t) ==
  LET m == migrate(parseOrEmpty(storage.almo_users), parseOrEmpty(storage.almo_tasks), 1, t)
  IN [users |-> m.users,
      boards |-> withColors(parseOrEmpty(storage.almo_boards)),
      tasks |-> m.tasks]

\* users.push({ id, name })
pageWithUser(p, t, name) ==
  [p EXCEPT !.users = Append(@, [id |-> MakeId("user", t), name |-> trim(name)])]

\* boards.push({ id, name, color })
pageWithBoard(p, t, name) ==
  [p EXCEPT !.boards =
     Append(@, [id |-> MakeId("board", t), name |-> trim(name),
                color |-> boardColors[(Len(p.boards) % Len(boardColors)) + 1]])]

\* tasks.push({ id, title, userId: userId || '', dueDate, description, boardId,
\* items: [], editing: false })
pageWithTask(p, t, title, userId, dueDate, description, boardId) ==
  [p EXCEPT !.tasks =
     Append(@, [id |-> MakeId("task", t), title |-> trim(title), userId |-> userId,
                dueDate |-> dueDate, description |-> trim(description),
                boardId |-> boardId, items |-> <<>>, editing |-> FALSE])]

\* the click handler of Save of a card in edit mode
pageEdited(p, k, title, userId, dueDate, boardId, description) ==
  [p EXCEPT !.tasks[k] =
     [@ EXCEPT !.title = IF trim(title) # "" THEN trim(title) ELSE @,
               !.userId = userId,
               !.dueDate = dueDate,
               !.boardId = boardId,
               !.description = trim(description),
               !.editing = FALSE]]

\* tasks = tasks.filter(t => t.id !== task.id)
pageWithoutTask(p, k) ==
  [p EXCEPT !.tasks = SelectSeq(@, LAMBDA x : x.id # p.tasks[k].id)]

\* the ids the selects of a card offer
PageUserIds(p) == {p.users[i].id : i \in 1..Len(p.users)} \cup {EmptyId}
PageBoardIds(p) == {p.boards[i].id : i \in 1..Len(p.boards)}

\* render() draws a card for task k: some board has the task's boardId
Shown(p, k) == p.tasks[k].boardId \in PageBoardIds(p)

\* DOMContentLoaded on a browser that never opened the page: load(); render()
InitPage ==
  /\ file = [readable |-> FALSE, doc |-> EmptyDoc]
  /\ now = 0
  /\ inflight = <<>>
  /\ clients = <<>>
  /\ page = load(NoStorage, 0)
  /\ localStorage = save(load(NoStorage, 0), NoStorage)

RECURSIVE CountItems(_, _)
CountItems(tasks, k) ==
  IF k > Len(tasks) THEN 0 ELSE Len(tasks[k].items) + CountItems(tasks, k + 1)

\* number of users, boards, tasks and sub-items of the page
PageSize(p) == Len(p.users) + Len(p.boards) + Len(p.tasks) + CountItems(p.tasks, 1)

\* a handler that ends with save(); render()
Saved(p) ==
  /\ PageSize(p) <= MaxPage
  /\ page' = p
  /\ localStorage' = save(p, localStorage)
  /\ UNCHANGED <<file, now, inflight, clients>>

\* a handler that ends with render() alone
Rendered(p) ==
  /\ page' = p
  /\ UNCHANGED <<file, now, inflight, clients, localStorage>>

\* the page is loaded again: load() and its save()
reloadPage ==
  /\ page' = load(localStorage, now)
  /\ localStorage' = save(load(localStorage, now), localStorage)
  /\ UNCHANGED <<file, now, inflight, clients>>

submitUser(name) ==
  IF trim(name) # "" THEN Saved(pageWithUser(page, now, name)) ELSE Rendered(page)

submitBoard(name) ==
  IF trim(name) # "" THEN Saved(pageWithBoard(page, now, name)) ELSE Rendered(page)

submitTask(title, userId, dueDate, description, boardId) ==
  IF trim(title) # "" /\ boardId # EmptyId
  THEN Saved(pageWithTask(page, now, title, userId, dueDate, description, boardId))
  ELSE Rendered(page)

clickEdit(k) ==
  Shown(page, k) /\ ~page.tasks[k].editing /\ Rendered([page EXCEPT !.tasks[k].editing = TRUE])

clickCancel(k) ==
  Shown(page, k) /\ page.tasks[k].editing /\ Rendered([page EXCEPT !.tasks[k].editing = FALSE])

clickSave(k, title, userId, dueDate, boardId, description) ==
  /\ Shown(page, k) /\ page.tasks[k].editing
  /\ Saved(pageEdited(page, k, title, userId, dueDate, boardId, description))

changeBoard(k, boardId) ==
  Shown(page, k) /\ ~page.tasks[k].editing /\ Saved([page EXCEPT !.tasks[k].boardId = boardId])

changeUser(k, userId) ==
  Shown(page, k) /\ ~page.tasks[k].editing /\ Saved([page EXCEPT !.tasks[k].userId = userId])

clickDelete(k) ==
  Shown(page, k) /\ ~page.tasks[k].editing /\ Saved(pageWithoutTask(page, k))

checkItem(k, j) ==
  Shown(page, k) /\ ~page.tasks[k].editing /\ Saved([page EXCEPT !.tasks[k] = toggled(@, j)])

promptItem(k, j, text) ==
  Shown(page, k) /\ ~page.tasks[k].editing
  /\ Saved([page EXCEPT !.tasks[k] = edited(@, j, text)])

removeItem(k, j) ==
  Shown(page, k) /\ ~page.tasks[k].editing
  /\ Saved([page EXCEPT !.tasks[k] = withoutItem(@, j)])

submitItem(k, text) ==
  /\ Shown(page, k) /\ ~page.tasks[k].editing
  /\ IF trim(text) # ""
     THEN Saved([page EXCEPT !.tasks[k] = withItem(@, now, text)])
     ELSE Rendered(page)

NextPage ==
  \/ Tick
  \/ reloadPage
  \/ \E name \in {"Ann", ""} : submitUser(name)
  \/ \E name \in {"Sprint", ""} : submitBoard(name)
  \/ \E title \in {"Fix bug", ""}, userId \in PageUserIds(page),
        boardId \in PageBoardIds(page) \cup {EmptyId} :
       submitTask(title, userId, "", "", boardId)
  \/ \E k \in 1..Len(page.tasks) :
       \/ clickEdit(k)
       \/ clickCancel(k)
       \/ \E title \in {"Renamed", ""}, userId \in PageUserIds(page),
             boardId \in PageBoardIds(page) :
            clickSave(k, title, userId, "2025-01-31", boardId, " call ")
       \/ \E boardId \in PageBoardIds(page) : changeBoard(k, boardId)
       \/ \E userId \in PageUserIds(page) : changeUser(k, userId)
       \/ clickDelete(k)
       \/ submitItem(k, "step")
       \/ \E j \in 1..Len(page.tasks[k].items) :
            \/ checkItem(k, j)
            \/ promptItem(k, j, " call ")
            \/ removeItem(k, j)

SpecPage == InitPage /\ [][NextPage]_vars

\* ---- a board is deleted while other requests are in flight ----
\* a board and a task are created one request at a time; then requests overlap,
\* and each stays in inflight once it is answered
NextRace ==
  \/ Tick
  \/ createBoard("Sprint", GhostUser)
  \/ \E b \in StoredBoardIds(loadData(file)) :
       createTask("Fix bug", NoDetails, b, Undefined, GhostUser)
  \/ \E data \in Loads :
       \/ beginCreateBoard(data, "Home", GhostUser)
       \/ \E b \in StoredBoardIds(data) :
            \/ beginInvite(data, b, "bob@x.com", GhostUser, "sent")
            \/ beginCreateTask(data, "Fix bug", NoDetails, b, Undefined, GhostUser)
            \/ beginDeleteBoard(data, b, GhostUser)
       \/ \E t \in StoredTaskIds(data) : beginUpdateTask(data, t, [title |-> "Renamed"])
  \/ \E i \in 1..Len(inflight) : answerWrite(i)

SpecRace == Init /\ [][NextRace]_vars

\* ---- the document as the next request finds it ----
store == loadData(file)

\* what the next request loads once handler run h has responded
After(h) == IF h.save THEN loadData(saveData(h.doc)) ELSE store

Range(s) == {s[i] : i \in 1..Len(s)}

\* ---- the owner of a board ----
\* C1: in every state of the persisted document, overlapping requests
\* included, the members of every stored board contain the board's ownerId
C1_OwnerIsMember ==
  \A b \in Range(store.boards) : includes(b.members, b.ownerId)

\* an invite has added a second member to a board while another request that
\* loaded the board with its owner alone has still to write
C1_Witness ==
  \E b \in Range(store.boards) :
    /\ Len(b.members) = 2
    /\ includes(b.members, b.ownerId)
    /\ \E i \in 1..Len(inflight) :
         /\ inflight[i].stage = "writing"
         /\ \E c \in Range(inflight[i].data.boards) : c.id = b.id /\ Len(c.members) = 1

\* ---- invite by a non-member ----
inviteRun(r, mail) == inviteHandler(store, now, r.boardId, r.email, r.inviterId, mail)

\* the board r.boardId names is stored and r.inviterId is not in its members
NonMemberInvite(r) ==
  /\ findById(store.boards, r.boardId) # 0
  /\ ~includes(store.boards[findById(store.boards, r.boardId)].members, r.inviterId)

deleteBoardRun(r) == deleteBoardHandler(store, r.boardId, r.userId)

tasksOf(data, boardId) == SelectSeq(data.tasks, LAMBDA x : x.boardId = boardId)
tasksNotOf(data, boardId) == SelectSeq(data.tasks, LAMBDA x : x.boardId # boardId)

\* C3: after a successful deleteBoard the document holds no board and no task
\* with the deleted id, the tasks of every other board are the same as before,
\* and no user's task list shows a task of the deleted board
C3_DeleteBoardCascades ==
  \A r \in DeleteBoardRequests(store) :
    LET h == deleteBoardRun(r)
        after == After(h)
    IN h.res.status = 200 =>
         /\ h.save
         /\ r.boardId \notin StoredBoardIds(after)
         /\ tasksOf(after, r.boardId) = <<>>
         /\ after.tasks = tasksNotOf(store, r.boardId)
         /\ \A u \in UserIds(store) :
              \A x \in Range(listTasks(after, u)) : x.boardId # r.boardId

\* the owner deletes a board that has a task while another task is not of that
\* board; the owner's task list loses the board's task
C3_Witness ==
  \E r \in DeleteBoardRequests(store) :
    /\ deleteBoardRun(r).res.status = 200
    /\ tasksOf(store, r.boardId) # <<>>
    /\ tasksNotOf(store, r.boardId) # <<>>
    /\ Len(listTasks(After(deleteBoardRun(r)), r.userId)) < Len(listTasks(store, r.userId))

\* C4: deleteBoard answers 404 for an id no board has, 403 when the userId is
\* not the ownerId of the board (an invited member and a missing userId
\* included), saving nothing in both cases, and saves only for the owner
C4_OnlyOwnerDeletes ==
  \A r \in DeleteBoardRequests(store) :
    LET b == findById(store.boards, r.boardId)
        h == deleteBoardRun(r)
    IN /\ b = 0 => h.res.status = 404 /\ ~h.save /\ After(h) = store
       /\ (b # 0 /\ r.userId # store.boards[b].ownerId) =>
            h.res.status = 403 /\ ~h.save /\ After(h) = store
       /\ h.save => b # 0 /\ r.userId = store.boards[b].ownerId

\* an invited member who is not the owner asks to delete a board that has a task
C4_Witness ==
  \E r \in DeleteBoardRequests(store) :
    /\ findById(store.boards, r.boardId) # 0
    /\ r.userId # store.boards[findById(store.boards, r.boardId)].ownerId
    /\ includes(store.boards[findById(store.boards, r.boardId)].members, r.userId)
    /\ tasksOf(store, r.boardId) # <<>>
    /\ deleteBoardRun(r).res.status = 403

\* ---- createTask ----
createTaskRun(r) ==
  createTaskHandler(store, now, r.title, r.details, r.boardId, r.assignedUserId,
                    r.creatorId)

\* title, boardId and creatorId are present and boardId names a stored board
WellFormedTask(r) ==
  /\ r.title # "" /\ r.boardId # Undefined /\ r.creatorId # Undefined
  /\ findById(store.boards, r.boardId) # 0

\* C5: a createTask request with title, boardId and creatorId for a stored board
\* is answered 403, adding no task, exactly when hasAccess of that board and the
\* creatorId is false; the members-only test of the handler and hasAccess agree
\* on every stored board and every user id
C5_CreateTaskAccess ==
  /\ \A r \in CreateTaskRequests(store) :
       WellFormedTask(r) =>
         LET board == store.boards[findById(store.boards, r.boardId)]
             h == createTaskRun(r)
         IN /\ h.res.status = 403 <=> ~hasAccess(board, r.creatorId)
            /\ h.res.status = 403 => ~h.save /\ After(h) = store
            /\ h.res.status # 403 => h.res.status = 200 /\ h.save
  /\ \A board \in Range(store.boards), u \in UserIds(store) \cup {Undefined} :
       isMember(board, u) <=> hasAccess(board, u)

\* one creator is refused and an invited member who is not the owner is admitted
C5_Witness ==
  /\ \E r \in CreateTaskRequests(store) :
       WellFormedTask(r) /\ createTaskRun(r).res.status = 403
  /\ \E r \in CreateTaskRequests(store) :
       /\ WellFormedTask(r) /\ createTaskRun(r).res.status = 200
       /\ store.boards[findById(store.boards, r.boardId)].ownerId # r.creatorId

\* C6: the task a successful createTask returns carries the id of the board the
\* request names and an empty items list, and a listTasks request of the
\* creator that is served next returns that task
C6_CreatedTaskVisible ==
  \A r \in CreateTaskRequests(store) :
    LET h == createTaskRun(r)
        T == h.res.body
        board == store.boards[findById(store.boards, r.boardId)]
        next == getTasksHandler(After(h), r.creatorId)
    IN h.res.status = 200 =>
         /\ T.boardId = board.id
         /\ T.items = <<>>
         /\ next.res.status = 200
         /\ T \in Range(next.res.body)

\* a member creates a task that the document has room for, assigned to nobody
C6_Witness ==
  \E r \in CreateTaskRequests(store) :
    /\ createTaskRun(r).res.status = 200
    /\ Fits(createTaskRun(r).doc)
    /\ r.assignedUserId = Undefined
    /\ Len(After(createTaskRun(r)).tasks) = Len(store.tasks) + 1

\* ---- invite of a registered user ----
boardsWithId(data, boardId) == {b \in Range(data.boards) : b.id = boardId}

\* the registered user the email of an invite belongs to
invitee(r) == store.users[findByEmail(store.users, r.email)]

\* C7: a registered user who is in the members of no board with a given id is
\* shown no task of that board; after a successful invite for the user's email
\* the user is in the members of the board the invite names, listBoards of the
\* user returns that board and listTasks of the user returns every task of it
C7_InviteGrantsAccess ==
  /\ \A u \in Registered(store), id \in StoredBoardIds(store) :
       (\A b \in boardsWithId(store, id) : ~includes(b.members, u)) =>
         \A x \in Range(listTasks(store, u)) : x.boardId # id
  /\ \A r \in InviteRequests(store), mail \in MailOutcomes :
       LET h == inviteRun(r, mail)
           after == After(h)
           B == after.boards[findById(after.boards, r.boardId)]
       IN (h.res.status = 200 /\ findByEmail(store.users, r.email) # 0) =>
            /\ includes(B.members, invitee(r).id)
            /\ B \in Range(getBoardsHandler(after, invitee(r).id).res.body)
            /\ \A x \in Range(tasksOf(after, r.boardId)) :
                 x \in Range(getTasksHandler(after, invitee(r).id).res.body)

\* a member invites a registered user who is no member of a board that has a
\* task: the user's task list is empty before and holds the task afterwards
C7_Witness ==
  \E r \in InviteRequests(store) :
    /\ inviteRun(r, "sent").res.status = 200
    /\ Fits(inviteRun(r, "sent").doc)
    /\ findByEmail(store.users, r.email) # 0
    /\ \A b \in boardsWithId(store, r.boardId) : ~includes(b.members, invitee(r).id)
    /\ tasksOf(store, r.boardId) # <<>>
    /\ listTasks(store, invitee(r).id) = <<>>
    /\ listTasks(After(inviteRun(r, "sent")), invitee(r).id) # <<>>

\* ---- invite of an unregistered email ----
registerRun(r) == registerHandler(store, now + 1, r.name, r.email, r.password)

\* an invite record written for the board and the email before the user existed
PendingInvite(b, u) ==
  \E inv \in Range(store.invites) :
    inv.boardId = b.id /\ inv.email = u.email /\ inv.id[2] < u.id[2]

\* an invite record written for the board and the email once the user existed
LinkingInvite(b, u) ==
  \E inv \in Range(store.invites) :
    inv.boardId = b.id /\ inv.email = u.email /\ inv.id[2] >= u.id[2]

\* C8: a successful invite for an email no user has appends one invite record
\* and leaves every board as it was; a successful register leaves every board
\* as it was and the new user is shown no board and no task; a registered user
\* who is not the owner is in the members of a board only if an invite for the
\* user's email on that board was processed after the user registered
C8_UnregisteredInviteGrantsNothing ==
  /\ \A r \in InviteRequests(store), mail \in MailOutcomes :
       LET h == inviteRun(r, mail)
           after == After(h)
       IN (h.res.status = 200 /\ findByEmail(store.users, r.email) = 0) =>
            /\ after.boards = store.boards
            /\ Len(after.invites) = Len(store.invites) + 1
            /\ SubSeq(after.invites, 1, Len(store.invites)) = store.invites
            /\ after.invites[Len(after.invites)].boardId = r.boardId
            /\ after.invites[Len(after.invites)].email = r.email
            /\ after.invites[Len(after.invites)].inviterId = r.inviterId
  /\ \A r \in RegisterRequests :
       LET h == registerRun(r)
           after == After(h)
           id == h.res.body.userId
       IN h.res.status = 200 =>
            /\ after.boards = store.boards
            /\ getBoardsHandler(after, id).res.body = <<>>
            /\ getTasksHandler(after, id).res.body = <<>>
  /\ \A u \in Range(store.users), b \in Range(store.boards) :
       (includes(b.members, u.id) /\ b.ownerId # u.id) => LinkingInvite(b, u)

\* a user registered after an invite for their email was recorded on a board
\* that has a task; the user is no member and is shown neither board nor task
C8_Witness ==
  \E u \in Range(store.users), b \in Range(store.boards) :
    /\ PendingInvite(b, u)
    /\ ~LinkingInvite(b, u)
    /\ ~includes(b.members, u.id)
    /\ tasksOf(store, b.id) # <<>>
    /\ listBoards(store, u.id) = <<>>
    /\ listTasks(store, u.id) = <<>>

\* ---- repeated invites ----
NoDuplicates(s) == \A i, j \in 1..Len(s) : s[i] = s[j] => i = j

\* C9: no members list holds the same id twice; a successful invite for the
\* email of a user who is already a member leaves every board as it was; every
\* successful invite appends exactly one invite record
C9_MembersHaveNoDuplicates ==
  /\ \A b \in Range(store.boards) : NoDuplicates(b.members)
  /\ \A r \in InviteRequests(store), mail \in MailOutcomes :
       LET h == inviteRun(r, mail)
           after == After(h)
           B == store.boards[findById(store.boards, r.boardId)]
       IN h.res.status = 200 =>
            /\ Len(after.invites) = Len(store.invites) + 1
            /\ SubSeq(after.invites, 1, Len(store.invites)) = store.invites
            /\ \A b \in Range(after.boards) : NoDuplicates(b.members)
            /\ (findByEmail(store.users, r.email) # 0 /\ includes(B.members, invitee(r).id))
                 => after.boards = store.boards

\* the invite that made a user a member is repeated, and an owner invites
\* their own email
C9_Witness ==
  /\ \E r \in InviteRequests(store) :
       /\ inviteRun(r, "sent").res.status = 200
       /\ Fits(inviteRun(r, "sent").doc)
       /\ findByEmail(store.users, r.email) # 0
       /\ \E b \in boardsWithId(store, r.boardId) :
            includes(b.members, invitee(r).id) /\ LinkingInvite(b, invitee(r))
  /\ \E r \in InviteRequests(store) :
       /\ inviteRun(r, "sent").res.status = 200
       /\ findByEmail(store.users, r.email) # 0
       /\ r.inviterId = invitee(r).id
       /\ store.boards[findById(store.boards, r.boardId)].ownerId = invitee(r).id

\* ---- updateTask ----
updateTaskRun(taskId, updates) == updateTaskHandler(store, taskId, updates)

\* C10: updateTask on a stored task gives every allow-listed key of the request
\* the value sent, keeps every other field of the task, its id among them,
\* adds no key that is outside the allow-list, and changes nothing else in the
\* document, whatever mix of keys the request carries
C10_UpdateSetsAllowListedKeys ==
  \A taskId \in StoredTaskIds(store), updates \in PatchBodies :
    LET i == findById(store.tasks, taskId)
        h == updateTaskRun(taskId, updates)
        old == store.tasks[i]
        new == After(h).tasks[i]
        sent == allowed \cap DOMAIN updates
    IN /\ h.res.status = 200 /\ h.save
       /\ DOMAIN new = DOMAIN old \cup sent
       /\ \A key \in sent : new[key] = updates[key]
       /\ \A key \in DOMAIN old \ sent : new[key] = old[key]
       /\ new.id = taskId
       /\ h.res.body = new
       /\ [After(h) EXCEPT !.tasks[i] = old] = store

\* a request with title, items, id and color has been applied: the stored task
\* has the new title and items, its own id, its old description and no color
C10_Witness ==
  \E x \in Range(store.tasks) :
    /\ x.title = PatchValue.title
    /\ x.items = PatchValue.items
    /\ x.description # PatchValue.description
    /\ x.id # PatchValue.id
    /\ "color" \notin DOMAIN x
    /\ \E updates \in PatchBodies :
         /\ DOMAIN updates = {"title", "items", "id", "color"}
         /\ After(updateTaskRun(x.id, updates)) = store

\* ---- login ----
loginRun(r) == loginHandler(store, r.email, r.password)

\* email and password are present and no stored user has the email
UnknownLogin(r) ==
  r.email # "" /\ r.password # "" /\ findByEmail(store.users, r.email) = 0

\* email and password are present, a stored user has the email and the
\* password is not the one the stored hash was made of
WrongPasswordLogin(r) ==
  /\ r.email # "" /\ r.password # "" /\ findByEmail(store.users, r.email) # 0
  /\ ~bcryptCompare(r.password, store.users[findByEmail(store.users, r.email)].passwordHash)

\* C11: a login with an email no user has and a login with a registered email
\* and a wrong password get the same status 401 and the same message, and
\* neither saves anything
C11_LoginFailuresAlike ==
  \A r1, r2 \in LoginRequests :
    (UnknownLogin(r1) /\ WrongPasswordLogin(r2)) =>
      LET h1 == loginRun(r1)
          h2 == loginRun(r2)
      IN /\ h1.res.status = 401 /\ h2.res.status = 401
         /\ h1.res.body = h2.res.body
         /\ ~h1.save /\ ~h2.save
         /\ After(h1) = store /\ After(h2) = store

\* a user is registered, one login names another email and one login names the
\* user's email with another password
C11_Witness ==
  /\ \E r \in LoginRequests : UnknownLogin(r)
  /\ \E r \in LoginRequests : WrongPasswordLogin(r)
  /\ \E r \in LoginRequests : loginRun(r).res.status = 200

\* ---- the colour of a board ----
\* palette[n mod 7] with the palette counted from 0
paletteAt(n) == boardColors[(n % 7) + 1]

\* C12: the board createBoard returns has the colour palette[n mod 7], n being
\* the number of stored boards when it is created; the palette has 7 entries
\* and starts with #4A90E2; of boards created one after the other on an empty
\* document the first 7 have pairwise different colours and the 8th has the
\* colour of the 1st
C12_ColourCycles ==
  /\ Len(boardColors) = 7 /\ boardColors[1] = "#4A90E2"
  /\ \A r \in PaletteRequests :
       LET h == createBoardHandler(store, now, r.name, r.userId)
       IN h.res.status = 200 =>
            /\ h.res.body.color = paletteAt(Len(store.boards))
            /\ After(h).boards = Append(store.boards, h.res.body)
  /\ \A i \in 1..Len(store.boards) : store.boards[i].color = paletteAt(i - 1)
  /\ \A i, j \in 1..Len(store.boards) :
       (i <= 7 /\ j <= 7 /\ i # j) => store.boards[i].color # store.boards[j].color
  /\ Len(store.boards) >= 8 => store.boards[8].color = store.boards[1].color

\* eight boards have been created
C12_Witness ==
  /\ Len(store.boards) = 8
  /\ store.boards[8].color = "#4A90E2"
  /\ store.boards[7].color = "#D0021B"

\* ---- emails of users ----
UniqueEmails(users) == \A i, j \in 1..Len(users) : users[i].email = users[j].email => i = j

\* C13: a register request whose email is the email of a user of the document
\* it loaded is answered 400 and saves nothing, and no two stored users have
\* the same email, overlapping register requests included
C13_EmailsUnique ==
  /\ UniqueEmails(store.users)
  /\ \A data \in Loads, r \in SignUpRequests :
       findByEmail(data.users, r.email) # 0 =>
         LET h == registerHandler(data, now, r.name, r.email, r.password)
         IN h.res.status = 400 /\ ~h.save /\ After(h) = store

\* two users with different emails are stored while a register request for the
\* email of one of them, which loaded the document before that user was
\* written, is about to write
C13_Witness ==
  /\ Len(store.users) = 2
  /\ \E u \in Range(store.users), i \in 1..Len(inflight) :
       /\ inflight[i].stage = "writing"
       /\ inflight[i].req.email = u.email
       /\ \E v \in Range(inflight[i].data.users) : v.email = u.email

\* ---- lost updates ----
Answered(i) == inflight[i].stage = "answered"

\* the users and boards of a document
Records(data) == Range(data.users) \cup Range(data.boards)

\* C14: requests overlap between load and write, each writes its whole copy,
\* and the file is always the copy of one single answered request, never a
\* merge of two; so of two overlapping requests that both were answered with
\* success the document keeps the addition of the later writer only
C14_WholeDocumentOverwrite ==
  (file.readable /\ \E i \in 1..Len(inflight) : Answered(i)) =>
     \E i \in 1..Len(inflight) : Answered(i) /\ store = inflight[i].data

\* two requests were both answered with success and the document is the copy
\* of one of them, without the record the other one added
C14_Witness ==
  \E i, j \in 1..Len(inflight) :
    /\ i # j /\ Answered(i) /\ Answered(j)
    /\ file.readable /\ store = inflight[j].data
    /\ \E x \in Records(inflight[i].data) : x \notin Records(store)
    /\ \E x \in Records(store) : x \notin Records(inflight[i].data)

\* ---- the mail of an invite ----
\* the request passes validation, board lookup and the membership test
AdmittedInvite(r) ==
  /\ r.boardId # Undefined /\ r.email # "" /\ r.inviterId # Undefined
  /\ findById(store.boards, r.boardId) # 0
  /\ includes(store.boards[findById(store.boards, r.boardId)].members, r.inviterId)

\* C15: an invite that passes validation, lookup and the membership test saves
\* the membership change and the invite record and is answered 200 with the
\* same saved document whether the mail is sent, fails or is not configured
C15_MailNeverUndoesInvite ==
  \A r \in InviteRequests(store), mail \in MailOutcomes :
    AdmittedInvite(r) =>
      LET h == inviteRun(r, mail)
          after == After(h)
          B == after.boards[findById(after.boards, r.boardId)]
      IN /\ h.res.status = 200 /\ h.res.body = "Invitation processed."
         /\ h.res.mail = mail
         /\ h.save
         /\ after = After(inviteRun(r, "no-transporter"))
         /\ after.invites = Append(store.invites, after.invites[Len(after.invites)])
         /\ after.invites[Len(after.invites)].email = r.email
         /\ after.invites[Len(after.invites)].boardId = r.boardId
         /\ findByEmail(store.users, r.email) # 0 => includes(B.members, invitee(r).id)

\* a member invites a registered user who is no member yet, and the mail fails
C15_Witness ==
  \E r \in InviteRequests(store) :
    /\ AdmittedInvite(r)
    /\ findByEmail(store.users, r.email) # 0
    /\ ~includes(store.boards[findById(store.boards, r.boardId)].members, invitee(r).id)
    /\ Fits(inviteRun(r, "failed").doc)
    /\ inviteRun(r, "failed").res.status = 200
    /\ After(inviteRun(r, "failed")) # store

\* ---- assignees ----
\* C16 as stated: every stored task whose userId is the id of a registered user
\* is in the task list GET /api/tasks returns to that user
C16_AssigneesSeeTheirTasks ==
  \A x \in Range(store.tasks), U \in Registered(store) :
    x.userId = U => x \in Range(getTasksHandler(store, U).res.body)

\* ---- the task list ----
\* positions of the stored tasks whose boardId is the id of a stored board that
\* has u in its members or as its owner
VisibleAt(u) ==
  {i \in 1..Len(store.tasks) :
     \E b \in Range(store.boards) :
       b.id = store.tasks[i].boardId /\ (includes(b.members, u) \/ b.ownerId = u)}

\* the k-th smallest element of a set of positions
Nth(positions, k) ==
  CHOOSE i \in positions : Cardinality({j \in positions : j <= i}) = k

\* C17: GET /api/tasks returns to u the stored tasks at the visible positions,
\* all of them, once each and in stored order, whatever their userId: every
\* task of a board u is a member of, and nothing for a user with no board
C17_TaskListExact ==
  \A u \in UserIds(store) :
    LET h == getTasksHandler(store, u)
        list == h.res.body
    IN /\ h.res.status = 200 /\ ~h.save
       /\ Len(list) = Cardinality(VisibleAt(u))
       /\ \A k \in 1..Len(list) : list[k] = store.tasks[Nth(VisibleAt(u), k)]
       /\ \A b \in Range(store.boards) :
            includes(b.members, u) =>
              \A x \in Range(store.tasks) : x.boardId = b.id => x \in Range(list)
       /\ (\A b \in Range(store.boards) : ~includes(b.members, u) /\ b.ownerId # u)
            => list = <<>>

\* one user is returned some of the stored tasks but not all, one of them not
\* assigned to that user, and a registered user with no board is returned none
C17_Witness ==
  /\ \E u \in UserIds(store) :
       /\ 0 < Len(listTasks(store, u)) /\ Len(listTasks(store, u)) < Len(store.tasks)
       /\ \E x \in Range(listTasks(store, u)) : x.userId # u
  /\ \E u \in Registered(store) : listTasks(store, u) = <<>>

\* ---- a new board ----
createBoardRun(r) == createBoardHandler(store, now, r.name, r.userId)

\* C18: the board a successful createBoard returns has the creator as ownerId
\* and as its only member, so the creator has access to it, and GET
\* /api/boards of the creator served next returns the boards it returned
\* before, in the same order, followed by the new board
C18_NewBoardListedLast ==
  \A r \in CreateBoardRequests(store) :
    LET h == createBoardRun(r)
        B == h.res.body
        before == getBoardsHandler(store, r.userId)
        next == getBoardsHandler(After(h), r.userId)
    IN h.res.status = 200 =>
         /\ B.ownerId = r.userId
         /\ B.members = <<r.userId>>
         /\ hasAccess(B, r.userId)
         /\ next.res.status = 200
         /\ next.res.body = Append(before.res.body, B)
         /\ next.res.body[Len(next.res.body)] = B

\* a user who already is shown one board, while another stored board is not
\* shown to them, creates a further board
C18_Witness ==
  \E r \in CreateBoardRequests(store) :
    /\ createBoardRun(r).res.status = 200
    /\ Fits(createBoardRun(r).doc)
    /\ Len(listBoards(store, r.userId)) >= 1
    /\ Len(listBoards(store, r.userId)) < Len(store.boards)

\* ---- the board of a task ----
\* C19: while no updateTask sets boardId, the boardId of every stored task is
\* the id of a stored board; updateTask stores the boardId it is sent even if
\* no stored board has that id
C19_TasksReferToBoards ==
  /\ \A x \in Range(store.tasks) : x.boardId \in StoredBoardIds(store)
  /\ \A taskId \in StoredTaskIds(store) :
       LET h == updateTaskRun(taskId, [boardId |-> NoBoard])
       IN /\ h.res.status = 200 /\ h.save
          /\ NoBoard \notin StoredBoardIds(After(h))
          /\ After(h).tasks[findById(store.tasks, taskId)].boardId = NoBoard

\* a renamed task and a second task are stored and a board can be deleted
\* together with a task of it
C19_Witness ==
  /\ Len(store.tasks) >= 2
  /\ \E x \in Range(store.tasks) : x.title = "Renamed"
  /\ \E r \in DeleteBoardRequests(store) :
       deleteBoardRun(r).res.status = 200 /\ tasksOf(store, r.boardId) # <<>>

\* ---- how members change ----
\* the step appended an invite record for the board id and the email
InviteRecorded(boardId, email) ==
  LET old == loadData(file).invites
      new == loadData(file').invites
  IN /\ Len(new) = Len(old) + 1
     /\ new[Len(new)].boardId = boardId
     /\ new[Len(new)].email = email

\* board b of the document before the step is board c after it
SameOrJoined(b, c) ==
  \/ c = b
  \/ \E u \in Range(loadData(file).users) :
       /\ c = [b EXCEPT !.members = Append(@, u.id)]
       /\ InviteRecorded(b.id, u.email)

\* the step removed every board with one id and changed no other board
BoardsDeleted ==
  \E id \in StoredBoardIds(loadData(file)) :
    loadData(file').boards = SelectSeq(loadData(file).boards, LAMBDA b : b.id # id)

\* the step kept every board in its place, with the same members or with the
\* id of the registered user of an invited email appended
BoardsKept ==
  LET old == loadData(file).boards
      new == loadData(file').boards
  IN /\ Len(new) >= Len(old)
     /\ \A i \in 1..Len(old) :
          /\ SameOrJoined(old[i], new[i])
          /\ \A u \in UserIds(loadData(file)) : hasAccess(old[i], u) => hasAccess(new[i], u)

\* C20: in a run of one request at a time every step either deletes boards or
\* keeps every stored board, changing its members only by appending the id of
\* the registered user of the email of an invite processed in that step; so
\* whoever has access to a board keeps it while the board is stored
C20_MembersOnlyGrowByInvite == [][BoardsDeleted \/ BoardsKept]_vars

\* a board has its owner and an invited registered user as members, the invite
\* is recorded, and the owner can move on to delete the board
C20_Witness ==
  \E b \in Range(store.boards), u \in Range(store.users) :
    /\ b.members = <<b.ownerId, u.id>>
    /\ \E inv \in Range(store.invites) : inv.boardId = b.id /\ inv.email = u.email
    /\ deleteBoardHandler(store, b.id, b.ownerId).res.status = 200

\* ---- deleteTask ----
deleteTaskRun(taskId) == deleteTaskHandler(store, taskId)

\* C21: deleteTask answers 200 for every task id, stored or not; afterwards no
\* stored task has the id; a second deleteTask with the same id saves the
\* document the first one saved; the tasks with other ids keep their content
\* and order, and users, boards and invites are the same as before
C21_DeleteTaskIdempotent ==
  \A taskId \in DeleteTaskRequests(store) :
    LET h == deleteTaskRun(taskId)
        after == After(h)
        again == deleteTaskHandler(after, taskId)
    IN /\ h.res.status = 200
       /\ h.save
       /\ taskId \notin StoredTaskIds(after)
       /\ again.res.status = 200
       /\ loadData(saveData(again.doc)) = after
       /\ after.tasks = SelectSeq(store.tasks, LAMBDA x : x.id # taskId)
       /\ after.users = store.users
       /\ after.boards = store.boards
       /\ after.invites = store.invites

\* two tasks with different ids are stored; deleting one leaves the other, and
\* deleting an id no task has leaves both
C21_Witness ==
  /\ \E t \in StoredTaskIds(store) :
       /\ Len(After(deleteTaskRun(t)).tasks) = 1
       /\ Len(store.tasks) = 2
  /\ After(deleteTaskRun(NoTask)).tasks = store.tasks
  /\ NoTask \in DeleteTaskRequests(store)

\* ---- PATCH with items ----
\* the lists a browser sends after the next event of its user
NextItems(c) ==
  LET task == clients[c].task
  IN {withItem(task, now, "step").items}
     \cup {toggled(task, k).items : k \in 1..Len(task.items)}
     \cup {edited(task, k, " call ").items : k \in 1..Len(task.items)}
     \cup {withoutItem(task, k).items : k \in 1..Len(task.items)}

\* the task with everything but its items
butItems(task) == [key \in DOMAIN task \ {"items"} |-> task[key]]

\* C22: a PATCH that carries items = L leaves the task with exactly the items
\* L, in the order of L: no sub-item stored before and absent from L survives and
\* none is merged with its stored version; the other fields of the task, the
\* other tasks and the rest of the document stay as they were
C22_ItemsReplacedWholesale ==
  \A c \in 1..Len(clients) :
    \A L \in NextItems(c) :
      LET i == findById(store.tasks, clients[c].task.id)
          h == updateTaskRun(clients[c].task.id, [items |-> L])
          after == After(h)
      IN i # 0 =>
           /\ h.res.status = 200
           /\ after.tasks[i].items = L
           /\ h.res.body.items = L
           /\ butItems(after.tasks[i]) = butItems(store.tasks[i])
           /\ after = [store EXCEPT !.tasks[i].items = L]

\* the stored task has a sub-item that a browser's next list does not have,
\* and a sub-item whose stored version differs from the one in that list
C22_Witness ==
  \E c \in 1..Len(clients) :
    LET i == findById(store.tasks, clients[c].task.id)
    IN /\ i # 0
       /\ \E L \in NextItems(c) :
            /\ L # <<>>
            /\ \E old \in Range(store.tasks[i].items) : \A it \in Range(L) : it.id # old.id
            /\ updateTaskRun(clients[c].task.id, [items |-> L]).doc.tasks[i].items = L
       /\ \E L \in NextItems(c) :
            \E old \in Range(store.tasks[i].items) :
              \E it \in Range(L) : it.id = old.id /\ it # old

\* ---- loadData ----
\* C23: loadData returns the stored document when data.json parses and the
\* empty document otherwise; when the file is missing or does not parse, a
\* register or createBoard that succeeds persists a document holding its own
\* new record and nothing else, deleteTask persists the empty document, and the
\* requests that name a record of the lost document are answered 404 and
\* persist nothing
C23_LoadNeverFails ==
  /\ file.readable => loadData(file) = file.doc
  /\ ~file.readable =>
       /\ loadData(file) = EmptyDoc
       /\ \A r \in RegisterRequests :
            LET h == registerRun(r)
            IN h.save =>
                 After(h) = [EmptyDoc EXCEPT !.users =
                               <<[id |-> h.res.body.userId, name |-> r.name, email |-> r.email,
                                  passwordHash |-> bcryptHash(r.password)]>>]
       /\ \A r \in CreateBoardRequests(file.doc) :
            LET h == createBoardRun(r)
            IN h.save => After(h) = [EmptyDoc EXCEPT !.boards = <<h.res.body>>]
       /\ \A taskId \in DeleteTaskRequests(file.doc) :
            After(deleteTaskRun(taskId)) = EmptyDoc
       /\ \A r \in CreateTaskRequests(file.doc) :
            LET h == createTaskRun(r)
            IN ~h.save /\ h.res.status \in {400, 404}
       /\ \A r \in InviteRequests(file.doc), mail \in MailOutcomes :
            LET h == inviteRun(r, mail)
            IN ~h.save /\ h.res.status \in {400, 404}
       /\ \A r \in DeleteBoardRequests(file.doc) :
            LET h == deleteBoardRun(r)
            IN ~h.save /\ h.res.status = 404
       /\ \A r \in UpdateTaskRequests(file.doc) :
            LET h == updateTaskRun(r.taskId, r.updates)
            IN ~h.save /\ h.res.status = 404

\* data.json held a user, a board and a task and no longer parses; the next
\* createBoard succeeds and persists one board and nothing else
C23_Witness ==
  /\ ~file.readable
  /\ file.doc.users # <<>> /\ file.doc.boards # <<>> /\ file.doc.tasks # <<>>
  /\ \E r \in CreateBoardRequests(file.doc) :
       /\ createBoardRun(r).save
       /\ r.userId \in Registered(file.doc)
       /\ DocSize(After(createBoardRun(r))) = 1

\* ---- reloading the single-user page ----
\* the fields of a task the page shows
visible(task) ==
  [key \in {"id", "title", "boardId", "userId", "dueDate", "description", "items"} |-> task[key]]

visibleTasks(tasks) == [k \in 1..Len(tasks) |-> visible(tasks[k])]

\* C24: after any sequence of handlers of the single-user page, load() on the
\* localStorage of that moment yields the users and boards the page holds and,
\* for every task, the same id, title, boardId, userId, dueDate, description and
\* items, in the same order
C24_ReloadKeepsBoardsAndTasks ==
  LET reloaded == load(localStorage, now)
  IN /\ reloaded.users = page.users
     /\ reloaded.boards = page.boards
     /\ visibleTasks(reloaded.tasks) = visibleTasks(page.tasks)

\* the page holds a board and a task with a sub-item; the card is in edit
\* mode, which storage does not know
C24_Witness ==
  /\ page.boards # <<>>
  /\ \E k \in 1..Len(page.tasks) :
       /\ page.tasks[k].items # <<>>
       /\ page.tasks[k].editing
       /\ ~load(localStorage, now).tasks[k].editing
       /\ visible(load(localStorage, now).tasks[k]) = visible(page.tasks[k])

\* ---- identifiers ----
\* no two records of the collection have the same id
UniqueIds(s) == \A i, j \in 1..Len(s) : s[i].id = s[j].id => i = j

\* C25: in every reachable state no two stored users share an id, no two
\* stored boards share an id and no two stored tasks share an id, creations
\* within one clock millisecond included
C25_IdsUniquePerCollection ==
  /\ UniqueIds(store.users)
  /\ UniqueIds(store.boards)
  /\ UniqueIds(store.tasks)

\* ---- errors and reads ----
ErrorStatuses == {400, 401, 403, 404}

\* handler run h called saveData at most on its success path: an answer other
\* than 200 is one of the four error statuses and leaves the document as it
\* was, a save comes with the answer 200, and a read-only route never saves
SavesOnlyOnSuccess(h, readOnly) ==
  /\ h.res.status # 200 => h.res.status \in ErrorStatuses /\ ~h.save /\ After(h) = store
  /\ h.save => h.res.status = 200 /\ ~readOnly
  /\ readOnly => ~h.save /\ After(h) = store

\* C26: on every route a request answered 400, 401, 403 or 404 leaves the
\* persisted document unchanged, and so does every login, listUsers, listBoards
\* and listTasks; saveData is called only by register, createBoard, invite,
\* createTask, updateTask, deleteTask and deleteBoard when they answer 200
C26_ErrorsAndReadsSaveNothing ==
  /\ \A r \in RegisterRequests : SavesOnlyOnSuccess(registerRun(r), FALSE)
  /\ \A r \in LoginRequests : SavesOnlyOnSuccess(loginRun(r), TRUE)
  /\ SavesOnlyOnSuccess(getUsersHandler(store), TRUE)
  /\ \A u \in UserIds(store) \cup {Undefined} :
       /\ SavesOnlyOnSuccess(getBoardsHandler(store, u), TRUE)
       /\ SavesOnlyOnSuccess(getTasksHandler(store, u), TRUE)
  /\ \A r \in CreateBoardRequests(store) : SavesOnlyOnSuccess(createBoardRun(r), FALSE)
  /\ \A r \in InviteRequests(store), mail \in MailOutcomes :
       SavesOnlyOnSuccess(inviteRun(r, mail), FALSE)
  /\ \A r \in CreateTaskRequests(store) : SavesOnlyOnSuccess(createTaskRun(r), FALSE)
  /\ \A r \in UpdateTaskRequests(store) :
       SavesOnlyOnSuccess(updateTaskRun(r.taskId, r.updates), FALSE)
  /\ \A taskId \in DeleteTaskRequests(store) : SavesOnlyOnSuccess(deleteTaskRun(taskId), FALSE)
  /\ \A r \in DeleteBoardRequests(store) : SavesOnlyOnSuccess(deleteBoardRun(r), FALSE)

\* the document holds a user, a board and a task, and requests answered 400,
\* 401, 403 and 404 can be sent, each saving nothing
C26_Witness ==
  /\ store.users # <<>> /\ store.boards # <<>> /\ store.tasks # <<>>
  /\ \E r \in RegisterRequests : registerRun(r).res.status = 400 /\ ~registerRun(r).save
  /\ \E r \in LoginRequests : loginRun(r).res.status = 401 /\ r.email = store.users[1].email
  /\ \E r \in InviteRequests(store) : inviteRun(r, "sent").res.status = 403
  /\ \E r \in DeleteBoardRequests(store) : deleteBoardRun(r).res.status = 403
  /\ \E r \in UpdateTaskRequests(store) :
       updateTaskRun(r.taskId, r.updates).res.status = 404
       /\ ~updateTaskRun(r.taskId, r.updates).save
  /\ \E r \in CreateTaskRequests(store) : createTaskRun(r).res.status = 404

\* ---- deleteBoard and requests in flight ----
\* entry i of inflight is a deleteBoard request
IsDeleteBoard(i) == DOMAIN inflight[i].req = {"boardId", "userId"}

\* C27: once a deleteBoard request has been answered 200, the persisted
\* document holds no board with its boardId and no task of that board, whatever
\* requests had loaded the document before the delete and write after it
C27_DeletedBoardStaysDeleted ==
  \A i \in 1..Len(inflight) :
    (Answered(i) /\ IsDeleteBoard(i)) =>
      /\ inflight[i].req.boardId \notin StoredBoardIds(store)
      /\ tasksOf(store, inflight[i].req.boardId) = <<>>

\* ---- two dashboards change the sub-items of one task ----
\* the one change client c made to the task it fetched is in the stored items:
\* the added or changed sub-item is stored as the browser has it, the deleted
\* one is not stored
ChangeStored(c) ==
  LET change == clients[c].did[1]
      stored == store.tasks[findById(store.tasks, clients[c].task.id)].items
  IN IF change.kind = "delete"
     THEN \A it \in Range(stored) : it.id # change.id
     ELSE \E it \in Range(clients[c].task.items) : it.id = change.id /\ it \in Range(stored)

\* C28: when two dashboards fetched the same task, one added a sub-item, the
\* other toggled, edited or deleted one, and each sent its items with PATCH,
\* the stored items contain both changes
C28_BothChangesStored ==
  \A a, b \in 1..Len(clients) :
    ( /\ a # b
      /\ clients[a].base = clients[b].base
      /\ Len(clients[a].did) = 1 /\ clients[a].did[1].kind = "add"
      /\ Len(clients[b].did) = 1 /\ clients[b].did[1].kind \in {"toggle", "edit", "delete"}
      /\ findById(store.tasks, clients[a].task.id) # 0 )
    => ChangeStored(a) /\ ChangeStored(b)

====
